---- MODULE Spec2Model ----
(***************************************************************************)
(* Model of gh_snake_contributions: the game engine state machine          *)
(* (game/engine.py), the snake (game/snake.py), the board (game/board.py), *)
(* the collision detector (game/collision.py), the food spawner            *)
(* (game/food.py), the pathfinding utilities (ai/pathfinding.py) and the   *)
(* controller (ai/controller.py).                                          *)
(*                                                                         *)
(* Random draws (rng.choice, rng.shuffle) are nondeterministic choices     *)
(* over every outcome the generator can produce.                           *)
(***************************************************************************)
EXTENDS Integers, Sequences, FiniteSets, TLC

VARIABLES config, cells, snake, food, score, tick, status, phase, last, snapshot

vars == <<config, cells, snake, food, score, tick, status, phase, last, snapshot>>

----------------------------------------------------------------------------
(* Bounds of the model *)

MaxWidth == 4
MaxHeight == 2
MaxInitialLength == 3
MaxTicks == 4
ShortTicks == 2
MaxCoord == 2
MaxLen == 4
MaxGrows == 2
ProbeWidth == 3
ProbeHeight == 2
MaxBoardSide == 3
MaxSourceSide == 3

----------------------------------------------------------------------------
(* game/board.py: Position, and the optional target Position | None *)

Position(px, py) == [x |-> px, y |-> py]

Add(p, q) == Position(p.x + q.x, p.y + q.y)

None == << >>

Some(p) == <<p>>

Abs(n) == IF n < 0 THEN -n ELSE n

Min(a, b) == IF a < b THEN a ELSE b

Range(s) == {s[i] : i \in 1..Len(s)}

----------------------------------------------------------------------------
(* game/snake.py: Direction *)

Directions == <<"UP", "DOWN", "LEFT", "RIGHT">>

DirectionSet == Range(Directions)

value(d) ==
    CASE d = "UP" -> Position(0, -1)
      [] d = "DOWN" -> Position(0, 1)
      [] d = "LEFT" -> Position(-1, 0)
      [] d = "RIGHT" -> Position(1, 0)

opposite(d) ==
    CASE d = "UP" -> "DOWN"
      [] d = "DOWN" -> "UP"
      [] d = "LEFT" -> "RIGHT"
      [] d = "RIGHT" -> "LEFT"

----------------------------------------------------------------------------
(* game/snake.py: Snake *)

head(s) == s.body[1]

tail(s) == s.body[Len(s.body)]

length(s) == Len(s.body)

get_body_positions(s) == Range(s.body)

(* faulty variant of get_next_head_position: the head skips a cell *)
NextHeadSkipsCell(s) == Add(head(s), Add(value(s.direction), value(s.direction)))

get_next_head_position(s) == Add(head(s), value(s.direction))

(* faulty variant of AcceptsDirection: a reversal is always accepted *)
AcceptsReversal(s, d) == TRUE

AcceptsDirection(s, d) == d # opposite(s.direction) \/ length(s) = 1

Turn(s, d) ==
    IF d # "None" /\ AcceptsDirection(s, d)
    THEN [s EXCEPT !.direction = d]
    ELSE s

(* faulty variant of Advance: the tail is dropped even when growing *)
DropTailAlways(s) ==
    [s EXCEPT !.body = <<get_next_head_position(s)>> \o SubSeq(s.body, 1, Len(s.body) - 1),
              !.growing = FALSE]

Advance(s) ==
    IF s.growing
    THEN [s EXCEPT !.body = <<get_next_head_position(s)>> \o s.body,
                   !.growing = FALSE]
    ELSE [s EXCEPT !.body = <<get_next_head_position(s)>> \o SubSeq(s.body, 1, Len(s.body) - 1)]

move(s, d) == Advance(Turn(s, d))

grow(s) == [s EXCEPT !.growing = TRUE]

collides_with_self(s) ==
    \E i \in 2..Len(s.body) : s.body[i] = head(s)

create(start_position, len, direction) ==
    [body |-> [i \in 1..len |->
                  Position(start_position.x + value(opposite(direction)).x * (i - 1),
                           start_position.y + value(opposite(direction)).y * (i - 1))],
     direction |-> direction,
     growing |-> FALSE]

NoSnake == [body |-> << >>, direction |-> "RIGHT", growing |-> FALSE]

----------------------------------------------------------------------------
(* game/board.py: Board *)

EmptyCell == [cell_type |-> "EMPTY", contribution_level |-> 0]

BoardPositions == {Position(px, py) : px \in 0..(config.width - 1), py \in 0..(config.height - 1)}

NewBoard(cfg) ==
    [p \in {Position(px, py) : px \in 0..(cfg.width - 1), py \in 0..(cfg.height - 1)} |-> EmptyCell]

(* faulty variant: the sampled index is one too far *)
SampleIndexShifted(dest_index, src_size, dest_size) ==
    Min((dest_index * src_size) \div dest_size + 1, src_size - 1)

SampleIndex(dest_index, src_size, dest_size) ==
    Min((dest_index * src_size) \div dest_size, src_size - 1)

SampledLevel(contributions, p) ==
    contributions[SampleIndex(p.y, Len(contributions), config.height) + 1]
                 [SampleIndex(p.x, Len(contributions[1]), config.width) + 1]

(* faulty variants: a wall only above the threshold; an empty grid clears *)
(* the board                                                              *)
ApplyStrictThreshold(b, contributions) ==
    IF Len(contributions) = 0 \/ Len(contributions[1]) = 0
    THEN b
    ELSE [p \in DOMAIN b |->
            [cell_type |->
                IF config.contribution_mode = "walls"
                   /\ SampledLevel(contributions, p) > config.wall_threshold
                THEN "WALL"
                ELSE b[p].cell_type,
             contribution_level |-> SampledLevel(contributions, p)]]

ApplyClearsOnEmpty(b, contributions) ==
    IF Len(contributions) = 0 \/ Len(contributions[1]) = 0
    THEN [p \in DOMAIN b |-> EmptyCell]
    ELSE [p \in DOMAIN b |->
            [cell_type |->
                IF config.contribution_mode = "walls"
                   /\ SampledLevel(contributions, p) >= config.wall_threshold
                THEN "WALL"
                ELSE b[p].cell_type,
             contribution_level |-> SampledLevel(contributions, p)]]

apply_contributions(b, contributions) ==
    IF Len(contributions) = 0 \/ Len(contributions[1]) = 0
    THEN b
    ELSE [p \in DOMAIN b |->
            [cell_type |->
                IF config.contribution_mode = "walls"
                   /\ SampledLevel(contributions, p) >= config.wall_threshold
                THEN "WALL"
                ELSE b[p].cell_type,
             contribution_level |-> SampledLevel(contributions, p)]]

is_valid_position(pos) ==
    /\ 0 <= pos.x /\ pos.x < config.width
    /\ 0 <= pos.y /\ pos.y < config.height

(* faulty variant of is_walkable: any cell beside the board is walkable *)
WalkableOffBoard(b, pos) ==
    IF ~is_valid_position(pos)
    THEN TRUE
    ELSE b[pos].cell_type # "WALL"

(* faulty variant of is_walkable: wall cells are not tested *)
WalkableThroughWalls(b, pos) == is_valid_position(pos)

is_walkable(b, pos) ==
    IF ~is_valid_position(pos)
    THEN FALSE
    ELSE b[pos].cell_type # "WALL"

get_empty_positions(b, exclude) ==
    {pos \in BoardPositions : is_walkable(b, pos) /\ pos \notin exclude}

(* Board methods the engine calls that game/board.py does not hold *)

get_contribution_positions(b, exclude, min_level) ==
    {pos \in BoardPositions : b[pos].contribution_level >= min_level /\ pos \notin exclude}

count_contribution_cells(b) ==
    Cardinality({pos \in BoardPositions : b[pos].contribution_level > 0})

consumed_contribution(b, pos) ==
    is_valid_position(pos) /\ b[pos].contribution_level > 0

consume_contribution(b, pos) ==
    IF consumed_contribution(b, pos)
    THEN [b EXCEPT ![pos].contribution_level = 0]
    ELSE b

----------------------------------------------------------------------------
(* game/collision.py: CollisionDetector *)

(* faulty variant of check_snake_collision: the body is tested first *)
CheckSelfFirst(b, s) ==
    IF collides_with_self(s) THEN "SELF"
    ELSE IF ~is_valid_position(head(s)) THEN "BOUNDARY"
    ELSE IF ~is_walkable(b, head(s)) THEN "WALL"
    ELSE "NONE"

check_snake_collision(b, s) ==
    IF ~is_valid_position(head(s)) THEN "BOUNDARY"
    ELSE IF ~is_walkable(b, head(s)) THEN "WALL"
    ELSE IF collides_with_self(s) THEN "SELF"
    ELSE "NONE"

(* the segments a move can run into: the tail moves away unless growing *)
body_positions(s) ==
    Range(SubSeq(s.body, 1, Len(s.body) - 1))
        \cup (IF s.growing THEN {tail(s)} ELSE {})

(* faulty variant of would_collide: the tail always counts as body *)
WouldCollideCountsTail(b, s, position) ==
    IF ~is_valid_position(position) THEN "BOUNDARY"
    ELSE IF ~is_walkable(b, position) THEN "WALL"
    ELSE IF position \in get_body_positions(s) THEN "SELF"
    ELSE "NONE"

would_collide(b, s, position) ==
    IF ~is_valid_position(position) THEN "BOUNDARY"
    ELSE IF ~is_walkable(b, position) THEN "WALL"
    ELSE IF position \in body_positions(s) THEN "SELF"
    ELSE "NONE"

check_food_collision(s, f) ==
    IF f = None THEN FALSE ELSE head(s) = f[1]

----------------------------------------------------------------------------
(* ai/pathfinding.py *)

get_neighbors(pos) == [i \in 1..Len(Directions) |-> Add(pos, value(Directions[i]))]

(* bfs_path answers None, or Some(path) with path a sequence of directions. *)
(* An entry of the queue is a position with the path that reached it.       *)
QueueEntry(pos, path) == [pos |-> pos, path |-> path]

RECURSIVE bfs_path_queue(_, _, _, _, _)
RECURSIVE bfs_path_neighbors(_, _, _, _, _, _, _)

(* the for loop over get_neighbors(current), from the i-th neighbour on *)
bfs_path_neighbors(i, current, queue, visited, target, b, obstacles) ==
    IF i > Len(Directions)
    THEN bfs_path_queue(queue, visited, target, b, obstacles)
    ELSE LET neighbor == get_neighbors(current.pos)[i]
             path == Append(current.path, Directions[i])
         IN IF neighbor \in visited
            THEN bfs_path_neighbors(i + 1, current, queue, visited, target, b, obstacles)
            ELSE IF neighbor = target
            THEN Some(path)
            ELSE IF ~is_walkable(b, neighbor)
            THEN bfs_path_neighbors(i + 1, current, queue, visited, target, b, obstacles)
            ELSE IF neighbor \in obstacles
            THEN bfs_path_neighbors(i + 1, current, queue, visited, target, b, obstacles)
            ELSE bfs_path_neighbors(i + 1, current,
                                    Append(queue, QueueEntry(neighbor, path)),
                                    visited \cup {neighbor}, target, b, obstacles)

(* the while loop over the queue *)
bfs_path_queue(queue, visited, target, b, obstacles) ==
    IF queue = << >>
    THEN None
    ELSE bfs_path_neighbors(1, Head(queue), Tail(queue), visited, target, b, obstacles)

(* faulty variant of bfs_path: no early return for start = target *)
BfsPathWithoutEarlyReturn(start, target, b, obstacles) ==
    bfs_path_queue(<<QueueEntry(start, << >>)>>, {start}, target, b, obstacles)

(* faulty variant of bfs_path: a target that is not walkable or is an *)
(* obstacle is given up at once                                        *)
BfsPathToFreeTarget(start, target, b, obstacles) ==
    IF start = target
    THEN Some(<< >>)
    ELSE IF ~is_walkable(b, target) \/ target \in obstacles
    THEN None
    ELSE bfs_path_queue(<<QueueEntry(start, << >>)>>, {start}, target, b, obstacles)

(* faulty variant of bfs_path: the obstacle set is not consulted *)
BfsPathThroughObstacles(start, target, b, obstacles) ==
    IF start = target
    THEN Some(<< >>)
    ELSE bfs_path_queue(<<QueueEntry(start, << >>)>>, {start}, target, b, {})

bfs_path(start, target, b, obstacles) ==
    IF start = target
    THEN Some(<< >>)
    ELSE bfs_path_queue(<<QueueEntry(start, << >>)>>, {start}, target, b, obstacles)

(* faulty variant of find_safe_moves: the reverse of the heading is not skipped *)
SafeMovesWithReverse(s, b) ==
    SelectSeq(Directions,
              LAMBDA d : /\ is_walkable(b, Add(head(s), value(d)))
                         /\ Add(head(s), value(d)) \notin body_positions(s))

find_safe_moves(s, b) ==
    SelectSeq(Directions,
              LAMBDA d : /\ ~(d = opposite(s.direction) /\ length(s) > 1)
                         /\ is_walkable(b, Add(head(s), value(d)))
                         /\ Add(head(s), value(d)) \notin body_positions(s))

(* the cells a neighbour scan adds to the queue, in get_neighbors order *)
Unvisited(current, visited, b, obstacles) ==
    SelectSeq(get_neighbors(current),
              LAMBDA neighbor : /\ neighbor \notin visited
                                /\ is_walkable(b, neighbor)
                                /\ neighbor \notin obstacles)

RECURSIVE count_reachable_queue(_, _, _, _, _, _)
count_reachable_queue(queue, visited, count, b, obstacles, max_count) ==
    IF queue = << >> \/ count >= max_count
    THEN count
    ELSE count_reachable_queue(Tail(queue) \o Unvisited(Head(queue), visited, b, obstacles),
                               visited \cup Range(Unvisited(Head(queue), visited, b, obstacles)),
                               count + 1, b, obstacles, max_count)

count_reachable_cells(start, b, obstacles, max_count) ==
    count_reachable_queue(<<start>>, {start}, 0, b, obstacles, max_count)

evaluate_move_safety(s, direction, b) ==
    count_reachable_cells(Add(head(s), value(direction)), b,
                          Range(SubSeq(s.body, 1, Len(s.body) - 1))
                              \cup {head(s)}
                              \cup (IF s.growing THEN {tail(s)} ELSE {}),
                          1000)

----------------------------------------------------------------------------
(* game/food.py: FoodSpawner.  spawn draws with rng.choice: every candidate *)
(* is a possible result.                                                    *)

spawn_candidates(b, occupied) ==
    IF config.contribution_mode = "food"
    THEN get_contribution_positions(b, occupied, 1)
    ELSE get_empty_positions(b, occupied)

(* faulty variant of spawn: the occupied cells are not excluded *)
SpawnIgnoresOccupied(b, occupied) ==
    IF spawn_candidates(b, {}) = {}
    THEN {None}
    ELSE {Some(pos) : pos \in spawn_candidates(b, {})}

spawn(b, occupied) ==
    IF spawn_candidates(b, occupied) = {}
    THEN {None}
    ELSE {Some(pos) : pos \in spawn_candidates(b, occupied)}

spawn_if_needed(b, current_food, occupied) ==
    IF current_food # None
    THEN {current_food}
    ELSE spawn(b, occupied)

----------------------------------------------------------------------------
(* game/engine.py: GameEngine spawn search *)

LexLess(a, b) ==
    \E i \in 1..Len(a) : a[i] < b[i] /\ \A j \in 1..(i - 1) : a[j] = b[j]

x_min == config.initial_length - 1

x_max == config.width - 1

(* sort key of _radial_candidates; the sort is stable over raster order *)
RadialKey(pos, anchor) ==
    <<Abs(pos.x - anchor.x) + Abs(pos.y - anchor.y),
      Abs(pos.y - anchor.y),
      Abs(pos.x - anchor.x),
      pos.y,
      pos.x>>

RasterKey(pos) == <<pos.y, pos.x>>

Anchor(strategy) ==
    IF strategy = "bottom_center"
    THEN Position(config.width \div 2, config.height - 1)
    ELSE Position(config.width \div 2, config.height \div 2)

(* faulty variant: lower_half_random lists the rows of the upper half too *)
SpawnCandidatesAllRows(strategy) ==
    IF x_min > x_max THEN {}
    ELSE IF strategy \in {"lower_half_random", "bottom_center", "center"}
    THEN {Position(px, py) : px \in x_min..x_max, py \in 0..(config.height - 1)}
    ELSE {}

(* the positions a strategy lists, as a set *)
_spawn_candidates(strategy) ==
    IF x_min > x_max THEN {}
    ELSE IF strategy = "lower_half_random"
    THEN {Position(px, py) : px \in x_min..x_max,
                             py \in (config.height \div 2)..(config.height - 1)}
    ELSE IF strategy \in {"bottom_center", "center"}
    THEN {Position(px, py) : px \in x_min..x_max, py \in 0..(config.height - 1)}
    ELSE {pos \in {Position(px, py) :
                      px \in (config.initial_length + 1)..((config.width \div 3) - 1),
                      py \in ((config.height \div 2) - 2)..((config.height \div 2) + 2)} :
             /\ pos.y >= 0 /\ pos.y < config.height
             /\ x_min <= pos.x /\ pos.x <= x_max}

(* whether p is listed before q by the strategy; a shuffled list has any order *)
ListedBefore(strategy, p, q) ==
    IF strategy = "lower_half_random" THEN TRUE
    ELSE IF strategy \in {"bottom_center", "center"}
    THEN LexLess(RadialKey(p, Anchor(strategy)), RadialKey(q, Anchor(strategy)))
    ELSE LexLess(RasterKey(p), RasterKey(q))

(* faulty variant: only the head cell is tested *)
ValidSpawnHeadOnly(b, head_pos) == is_walkable(b, head_pos)

_is_valid_spawn(b, head_pos) ==
    \A i \in 0..(config.initial_length - 1) :
        is_walkable(b, Position(head_pos.x - i, head_pos.y))

(* the first valid candidate of a strategy: the values the inner loop can return *)
FirstValidSpawn(b, strategy) ==
    {p \in _spawn_candidates(strategy) :
        /\ _is_valid_spawn(b, p)
        /\ \A q \in _spawn_candidates(strategy) :
              (q # p /\ _is_valid_spawn(b, q)) => ListedBefore(strategy, p, q)}

fallback_order == <<"bottom_center", "center", "legacy_left">>

Strategies ==
    <<config.spawn_position>>
        \o SelectSeq(fallback_order, LAMBDA st : st # config.spawn_position)

RECURSIVE SearchStrategies(_, _)
SearchStrategies(b, i) ==
    IF i > Len(Strategies) THEN {}
    ELSE IF FirstValidSpawn(b, Strategies[i]) # {}
    THEN FirstValidSpawn(b, Strategies[i])
    ELSE SearchStrategies(b, i + 1)

(* faulty variant: no rng.choice over the walkable cells before the last *)
(* resort                                                                 *)
FindStartWithoutAnyCell(b) ==
    IF SearchStrategies(b, 1) # {}
    THEN SearchStrategies(b, 1)
    ELSE {Position(config.width \div 2, config.height \div 2)}

_find_start_position(b) ==
    IF SearchStrategies(b, 1) # {}
    THEN SearchStrategies(b, 1)
    ELSE IF get_empty_positions(b, {}) # {}
    THEN get_empty_positions(b, {})
    ELSE {Position(config.width \div 2, config.height \div 2)}

----------------------------------------------------------------------------
(* game/engine.py: GameEngine.setup and GameEngine.step *)

Terminal == {"won", "collision", "timeout"}

(* the food-mode win test shared by setup and step *)
FoodModeWon(b, f) ==
    /\ config.contribution_mode = "food"
    /\ f = None
    /\ count_contribution_cells(b) = 0

(* the win test for a saturated board *)
SaturatedWon(b, s, f) ==
    /\ f = None
    /\ get_empty_positions(b, get_body_positions(s)) = {}

(* whether the moved snake consumes at its head *)
Consumes(b, s, f) ==
    IF config.contribution_mode = "food"
    THEN consumed_contribution(b, head(s))
    ELSE check_food_collision(s, f)

(* faulty variant: the cell under the head is consumed in every mode *)
BoardConsumedInEveryMode(b, s) == consume_contribution(b, head(s))

(* faulty variant: the board keeps the level of a consumed cell *)
BoardKeepsConsumedLevel(b, s) == b

BoardAfterConsumption(b, s) ==
    IF config.contribution_mode = "food"
    THEN consume_contribution(b, head(s))
    ELSE b

(* faulty variant: the target is kept when the snake consumes it *)
FoodNeverCleared(b, s, f) == f

(* faulty variant: food mode clears the target on any consumption *)
FoodClearedOnAnyConsumption(b, s, f) ==
    IF Consumes(b, s, f) THEN None ELSE f

FoodAfterConsumption(b, s, f) ==
    IF config.contribution_mode = "food"
    THEN IF Consumes(b, s, f) /\ f = Some(head(s)) THEN None ELSE f
    ELSE IF Consumes(b, s, f) THEN None ELSE f

(* faulty variant: consumption requests no growth *)
SnakeNeverGrows(b, s, f) == s

SnakeAfterConsumption(b, s, f) ==
    IF Consumes(b, s, f) THEN grow(s) ELSE s

(* faulty variants: timeout tested before the win tests; timeout one tick *)
(* late; no saturation win test                                           *)
StatusTimeoutFirst(b, s, f, t) ==
    IF t >= config.max_ticks THEN "timeout"
    ELSE IF FoodModeWon(b, f) THEN "won"
    ELSE IF SaturatedWon(b, s, f) THEN "won"
    ELSE "running"

StatusTimeoutLate(b, s, f, t) ==
    IF FoodModeWon(b, f) THEN "won"
    ELSE IF SaturatedWon(b, s, f) THEN "won"
    ELSE IF t > config.max_ticks THEN "timeout"
    ELSE "running"

StatusWithoutSaturation(b, s, f, t) ==
    IF FoodModeWon(b, f) THEN "won"
    ELSE IF t >= config.max_ticks THEN "timeout"
    ELSE "running"

StatusAfterStep(b, s, f, t) ==
    IF FoodModeWon(b, f) THEN "won"
    ELSE IF SaturatedWon(b, s, f) THEN "won"
    ELSE IF t >= config.max_ticks THEN "timeout"
    ELSE "running"

(* faulty variant: setup without the food-mode win test *)
StatusRunningAfterSetup(b, f) == "running"

StatusAfterSetup(b, f) ==
    IF FoodModeWon(b, f) THEN "won" ELSE "running"

(* what the last call did: the locals of step the snapshot does not hold *)
Call(op, collision, consumed, on_target) ==
    [op |-> op, collision |-> collision, consumed |-> consumed, on_target |-> on_target]

Setup(contributions) ==
    /\ phase = "constructed"
    /\ LET b == IF contributions # << >>
                THEN apply_contributions(cells, contributions)
                ELSE cells
       IN \E start_pos \in _find_start_position(b) :
            LET s == create(start_pos, config.initial_length, "RIGHT")
            IN \E f \in spawn(b, get_body_positions(s)) :
                 /\ cells' = b
                 /\ snake' = s
                 /\ score' = 0
                 /\ tick' = 0
                 /\ food' = f
                 /\ status' = StatusAfterSetup(b, f)
    /\ phase' = "ready"
    /\ last' = Call("setup", "NA", FALSE, FALSE)
    /\ UNCHANGED <<config, snapshot>>

(* faulty variant: tick incremented before the status test *)
StepTerminalTicks(direction) ==
    /\ phase = "ready"
    /\ status # "running"
    /\ tick' = tick + 1
    /\ last' = Call("noop", "NA", FALSE, FALSE)
    /\ UNCHANGED <<config, cells, snake, food, score, status, phase, snapshot>>

StepTerminal(direction) ==
    /\ phase = "ready"
    /\ status # "running"
    /\ last' = Call("noop", "NA", FALSE, FALSE)
    /\ UNCHANGED <<config, cells, snake, food, score, tick, status, phase, snapshot>>

(* faulty variants: a collision that leaves status running; a collision   *)
(* detected after the consumption                                         *)
StepCollisionKeepsRunning(direction) ==
    /\ phase = "ready"
    /\ status = "running"
    /\ check_snake_collision(cells, move(snake, direction)) # "NONE"
    /\ snake' = move(snake, direction)
    /\ tick' = tick + 1
    /\ last' = Call("step", check_snake_collision(cells, move(snake, direction)), FALSE, FALSE)
    /\ UNCHANGED <<config, cells, food, score, status, phase, snapshot>>

StepCollisionConsumes(direction) ==
    /\ phase = "ready"
    /\ status = "running"
    /\ check_snake_collision(cells, move(snake, direction)) # "NONE"
    /\ snake' = move(snake, direction)
    /\ tick' = tick + 1
    /\ status' = "collision"
    /\ cells' = consume_contribution(cells, head(move(snake, direction)))
    /\ score' = IF consumed_contribution(cells, head(move(snake, direction)))
                THEN score + 1 ELSE score
    /\ last' = Call("step", check_snake_collision(cells, move(snake, direction)), FALSE, FALSE)
    /\ UNCHANGED <<config, food, phase, snapshot>>

StepCollision(direction) ==
    /\ phase = "ready"
    /\ status = "running"
    /\ check_snake_collision(cells, move(snake, direction)) # "NONE"
    /\ snake' = move(snake, direction)
    /\ tick' = tick + 1
    /\ status' = "collision"
    /\ last' = Call("step", check_snake_collision(cells, move(snake, direction)), FALSE, FALSE)
    /\ UNCHANGED <<config, cells, food, score, phase, snapshot>>

StepAdvance(direction) ==
    /\ phase = "ready"
    /\ status = "running"
    /\ check_snake_collision(cells, move(snake, direction)) = "NONE"
    /\ LET moved == move(snake, direction)
           b == BoardAfterConsumption(cells, moved)
           s == SnakeAfterConsumption(cells, moved, food)
           eaten == FoodAfterConsumption(cells, moved, food)
       IN \E f \in spawn_if_needed(b, eaten, get_body_positions(s)) :
            /\ snake' = s
            /\ tick' = tick + 1
            /\ cells' = b
            /\ score' = IF Consumes(cells, moved, food) THEN score + 1 ELSE score
            /\ food' = f
            /\ status' = StatusAfterStep(b, s, f, tick + 1)
            /\ last' = Call("step", "NONE", Consumes(cells, moved, food), food = Some(head(moved)))
    /\ UNCHANGED <<config, phase, snapshot>>

step(direction) ==
    \/ StepTerminal(direction)
    \/ StepCollision(direction)
    \/ StepAdvance(direction)

is_running == status = "running"

(* GameState (engine.py 18-29).  The board and snake fields are references *)
(* to objects; food is a frozen Position and score, tick and status are    *)
(* immutable values.  Deref reads the object a reference names: the engine *)
(* owns one Board for its whole life and one Snake from setup on, and      *)
(* mutates both in place.                                                  *)
GameState(board_ref, snake_ref, f, sc, t, st) ==
    [board |-> board_ref, snake |-> snake_ref, food |-> f,
     score |-> sc, tick |-> t, status |-> st]

Deref(ref) == IF ref = "engine.board" THEN cells ELSE snake

get_state == GameState("engine.board", "engine.snake", food, score, tick, status)

(* the state a caller holds on to, with the values its board and snake had *)
(* when it was produced                                                    *)
NoSnapshot == [taken |-> FALSE]

GetState ==
    /\ phase = "ready"
    /\ snapshot = NoSnapshot
    /\ snapshot' = [taken |-> TRUE, state |-> get_state,
                    produced |-> [snake |-> Deref(get_state.snake),
                                  board |-> Deref(get_state.board),
                                  food |-> food, score |-> score,
                                  tick |-> tick, status |-> status]]
    /\ UNCHANGED <<config, cells, snake, food, score, tick, status, phase, last>>

----------------------------------------------------------------------------
(* ai/controller.py: AIController.  A state is the board b, the snake s and *)
(* the target f of a GameState.                                             *)

(* move_scores: one (direction, score) pair per safe move, in order *)
MoveScores(s, b, safe_moves) ==
    [i \in 1..Len(safe_moves) |->
        <<safe_moves[i], evaluate_move_safety(s, safe_moves[i], b)>>]

(* list.sort(key = score, reverse = True): highest score first, and pairs *)
(* of equal score in the order they had, since the sort is stable         *)
InsertByScore(sorted, pair) ==
    LET ahead == Cardinality({i \in 1..Len(sorted) : sorted[i][2] >= pair[2]})
    IN SubSeq(sorted, 1, ahead) \o <<pair>> \o SubSeq(sorted, ahead + 1, Len(sorted))

RECURSIVE SortByScore(_)
SortByScore(move_scores) ==
    IF move_scores = << >> THEN << >>
    ELSE InsertByScore(SortByScore(SubSeq(move_scores, 1, Len(move_scores) - 1)),
                       move_scores[Len(move_scores)])

(* faulty variant of _best_survival_move: the lowest score first *)
WorstSurvivalMove(s, b, safe_moves) ==
    IF safe_moves = << >>
    THEN s.direction
    ELSE LET sorted == SortByScore(MoveScores(s, b, safe_moves))
         IN sorted[Len(sorted)][1]

(* faulty variant of _best_survival_move: among equal scores the last one *)
BestSurvivalLastOfTies(s, b, safe_moves) ==
    IF safe_moves = << >>
    THEN s.direction
    ELSE LET sorted == SortByScore(MoveScores(s, b, safe_moves))
             ties == Cardinality({i \in 1..Len(sorted) : sorted[i][2] = sorted[1][2]})
         IN sorted[ties][1]

_best_survival_move(s, b, safe_moves) ==
    IF safe_moves = << >>
    THEN s.direction
    ELSE SortByScore(MoveScores(s, b, safe_moves))[1][1]

(* faulty variant of _survival_move: a fixed direction when nothing is safe *)
SurvivalDefaultsUp(s, b) ==
    IF find_safe_moves(s, b) = << >>
    THEN "UP"
    ELSE _best_survival_move(s, b, find_safe_moves(s, b))

_survival_move(s, b) ==
    IF find_safe_moves(s, b) = << >>
    THEN s.direction
    ELSE _best_survival_move(s, b, find_safe_moves(s, b))

(* the preferred list of _greedy_move: one entry per axis at most *)
Horizontal(dx, safe) ==
    IF dx > 0 /\ "RIGHT" \in safe THEN <<"RIGHT">>
    ELSE IF dx < 0 /\ "LEFT" \in safe THEN <<"LEFT">>
    ELSE << >>

Vertical(dy, safe) ==
    IF dy > 0 /\ "DOWN" \in safe THEN <<"DOWN">>
    ELSE IF dy < 0 /\ "UP" \in safe THEN <<"UP">>
    ELSE << >>

_greedy_move(s, b, f) ==
    LET safe_moves == find_safe_moves(s, b)
    IN IF safe_moves = << >> THEN s.direction
       ELSE IF f = None THEN safe_moves[1]
       ELSE LET dx == f[1].x - head(s).x
                dy == f[1].y - head(s).y
                preferred == IF Abs(dx) > Abs(dy)
                             THEN Horizontal(dx, Range(safe_moves)) \o Vertical(dy, Range(safe_moves))
                             ELSE Vertical(dy, Range(safe_moves)) \o Horizontal(dx, Range(safe_moves))
            IN IF preferred # << >> THEN preferred[1] ELSE safe_moves[1]

(* "if path:" holds for a path that is neither None nor empty *)
Truthy(path) == path # None /\ path[1] # << >>

_bfs_safe_move(s, b, f) ==
    LET safe_moves == find_safe_moves(s, b)
    IN IF safe_moves = << >> THEN s.direction
       ELSE IF f = None THEN _best_survival_move(s, b, safe_moves)
       ELSE LET path == bfs_path(head(s), f[1], b, body_positions(s))
            IN IF Truthy(path) /\ evaluate_move_safety(s, path[1][1], b) >= length(s) + 5
               THEN path[1][1]
               ELSE _best_survival_move(s, b, safe_moves)

(* candidate_targets after the stable sort by distance to the head, cut to *)
(* the nearest 12                                                          *)
NearestTargets(s, b) ==
    LET candidate_targets == get_contribution_positions(b, get_body_positions(s), 1)
    IN {pos \in candidate_targets :
           Cardinality({q \in candidate_targets :
                           LexLess(RadialKey(q, head(s)), RadialKey(pos, head(s)))}) < 12}

(* faulty variant of HunterRank: the heading does not count *)
HunterRankWithoutHeading(s, b, target, path) ==
    <<Len(path), 0, -(b[target].contribution_level)>>

HunterRank(s, b, target, path) ==
    <<Len(path),
      IF path[1] = s.direction THEN 0 ELSE 1,
      -(b[target].contribution_level)>>

_commit_hunter_move(s, b, f) ==
    LET safe_moves == find_safe_moves(s, b)
        path(target) == bfs_path(head(s), target, b, body_positions(s))
        kept == {target \in NearestTargets(s, b) :
                    /\ Truthy(path(target))
                    /\ path(target)[1][1] \in Range(safe_moves)
                    /\ evaluate_move_safety(s, path(target)[1][1], b) >= length(s) + 2}
        rank(target) == HunterRank(s, b, target, path(target)[1])
        best == CHOOSE target \in kept :
                    \A other \in kept \ {target} :
                        \/ LexLess(rank(target), rank(other))
                        \/ /\ rank(target) = rank(other)
                           /\ LexLess(RadialKey(target, head(s)), RadialKey(other, head(s)))
    IN IF safe_moves = << >> THEN s.direction
       ELSE IF config.contribution_mode # "food" THEN _bfs_safe_move(s, b, f)
       ELSE IF kept = {} THEN _best_survival_move(s, b, safe_moves)
       ELSE path(best)[1][1]

get_next_direction(s, b, f) ==
    CASE config.ai_strategy = "greedy" -> _greedy_move(s, b, f)
      [] config.ai_strategy = "bfs_safe" -> _bfs_safe_move(s, b, f)
      [] config.ai_strategy = "survival" -> _survival_move(s, b)
      [] config.ai_strategy = "commit_hunter" -> _commit_hunter_move(s, b, f)
      [] OTHER -> _bfs_safe_move(s, b, f)

----------------------------------------------------------------------------
(* Inputs: configurations (config.py, __main__.py) and contribution grids *)

Modes == {"walls", "food", "speed"}

SpawnPositions == {"legacy_left", "center", "bottom_center", "lower_half_random"}

Cfg(mode, threshold, len, ticks, sp) ==
    [width |-> MaxWidth, height |-> MaxHeight,
     contribution_mode |-> mode, wall_threshold |-> threshold,
     initial_length |-> len, max_ticks |-> ticks, spawn_position |-> sp]

(* runs of MaxTicks ticks under the default spawn strategy, and short runs *)
(* in every mode and, in walls mode, under every spawn strategy           *)
Configs ==
    {Cfg(mode, IF mode = "walls" THEN 3 ELSE 5, len, MaxTicks, "lower_half_random") :
        mode \in Modes, len \in {1, MaxInitialLength}}
    \cup
    {Cfg(mode, IF mode = "walls" THEN 3 ELSE 5, len, ShortTicks, "lower_half_random") :
        mode \in Modes, len \in {1, MaxInitialLength}}
    \cup
    {Cfg("walls", 3, MaxInitialLength, ShortTicks, sp) : sp \in SpawnPositions}

Grids ==
    { << >>,
      << <<0>> >>,
      << <<1>> >>,
      << <<0, 4>> >>,
      << <<4, 1>> >>,
      << <<0, 0>>, <<0, 1>> >>,
      << <<4, 0>>, <<4, 4>> >>,
      << <<1>>, <<4>> >> }

(* the grids a configuration is run on *)
GridsFor(cfg) ==
    IF cfg.max_ticks = ShortTicks THEN Grids
    ELSE IF cfg.contribution_mode = "walls"
    THEN { << >>, << <<0, 4>> >>, << <<1>>, <<4>> >> }
    ELSE IF cfg.contribution_mode = "food"
    THEN { << <<1>> >>, << <<0, 0>>, <<0, 1>> >> }
    ELSE { << <<4, 1>> >> }

StepInputs == DirectionSet \cup {"None"}

Init ==
    /\ config \in Configs
    /\ cells = NewBoard(config)
    /\ snake = NoSnake
    /\ food = None
    /\ score = 0
    /\ tick = 0
    /\ status = "running"
    /\ phase = "constructed"
    /\ last = Call("init", "NA", FALSE, FALSE)
    /\ snapshot = NoSnapshot

Next ==
    \/ \E contributions \in GridsFor(config) : Setup(contributions)
    \/ \E direction \in StepInputs : step(direction)

Spec == Init /\ [][Next]_vars

----------------------------------------------------------------------------
(* The run of tests/test_game.py test_engine_collision_ends_game: setup,    *)
(* then step(Direction.RIGHT) on every tick.  The narrow configurations     *)
(* hold a snake longer than the board is wide.                              *)

RightConfigs ==
    {Cfg(mode, IF mode = "walls" THEN 3 ELSE 5, len, ticks, sp) :
        mode \in Modes, len \in {1, MaxInitialLength},
        ticks \in {ShortTicks, MaxWidth + 1}, sp \in SpawnPositions}
    \cup
    {[Cfg(mode, 5, 3, 3, "lower_half_random") EXCEPT !.width = 2, !.height = 1] :
        mode \in {"walls", "speed"}}

RightInit ==
    /\ config \in RightConfigs
    /\ cells = NewBoard(config)
    /\ snake = NoSnake
    /\ food = None
    /\ score = 0
    /\ tick = 0
    /\ status = "running"
    /\ phase = "constructed"
    /\ last = Call("init", "NA", FALSE, FALSE)
    /\ snapshot = NoSnapshot

RightNext ==
    \/ \E contributions \in Grids : Setup(contributions)
    \/ step("RIGHT")

RightSpec == RightInit /\ [][RightNext]_vars

(* The same run with one call of get_state at any point after setup: the   *)
(* caller keeps the GameState while the engine goes on stepping.           *)
SnapshotNext ==
    \/ \E contributions \in Grids : Setup(contributions)
    \/ GetState
    \/ step("RIGHT")

SnapshotSpec == RightInit /\ [][SnapshotNext]_vars

----------------------------------------------------------------------------
(* setup alone, on boards of every size up to MaxWidth x MaxHeight, under   *)
(* every spawn strategy, with walls laid out by one- and two-row grids      *)
(* (tests/test_game.py test_engine_spawn_lower_half_random).                *)

SetupRows == {<<a, b>> : a, b \in {0, 4}}

SetupGrids ==
    {<< >>} \cup {<<r>> : r \in SetupRows} \cup {<<r, q>> : r, q \in SetupRows}

SetupConfigs ==
    {[Cfg(mode, 3, len, ShortTicks, sp) EXCEPT !.width = w, !.height = h] :
        mode \in {"walls", "food"}, len \in 1..MaxInitialLength,
        sp \in SpawnPositions, w \in 1..MaxWidth, h \in 1..MaxHeight}

SetupInit ==
    /\ config \in SetupConfigs
    /\ cells = NewBoard(config)
    /\ snake = NoSnake
    /\ food = None
    /\ score = 0
    /\ tick = 0
    /\ status = "running"
    /\ phase = "constructed"
    /\ last = Call("init", "NA", FALSE, FALSE)
    /\ snapshot = NoSnapshot

SetupNext == \E contributions \in SetupGrids : Setup(contributions)

SetupSpec == SetupInit /\ [][SetupNext]_vars

----------------------------------------------------------------------------
(* The board alone (tests/test_game.py TestBoard): a fresh board of any     *)
(* size up to MaxBoardSide, apply_contributions with a grid of any size up  *)
(* to MaxSourceSide, possibly a second call with an empty grid, then a      *)
(* query of is_valid_position and is_walkable on or next to the board.      *)

(* the levels 0..4 in raster order, and the same grid with 4 - level *)
RampGrid(rows, cols) ==
    [r \in 1..rows |-> [c \in 1..cols |-> ((r - 1) * cols + (c - 1)) % 5]]

InvertedGrid(rows, cols) ==
    [r \in 1..rows |-> [c \in 1..cols |-> 4 - RampGrid(rows, cols)[r][c]]]

(* no rows, or rows with no entries *)
EmptyGrids == {[r \in 1..rows |-> << >>] : rows \in 0..MaxSourceSide}

BoardGrids ==
    EmptyGrids
    \cup {RampGrid(rows, cols) : rows \in 1..MaxSourceSide, cols \in 1..MaxSourceSide}
    \cup {InvertedGrid(rows, cols) : rows \in 1..MaxSourceSide, cols \in 1..MaxSourceSide}

BoardConfigs ==
    {[Cfg(mode, threshold, 1, ShortTicks, "center") EXCEPT !.width = w, !.height = h] :
        mode \in {"walls", "food"}, threshold \in {1, 3},
        w \in 1..MaxBoardSide, h \in 1..MaxBoardSide}

BoardProbes ==
    {Position(px, py) : px \in (-1)..config.width, py \in (-1)..config.height}

BoardCall(op, contributions, before, applied, pos, valid, walkable) ==
    [op |-> op, contributions |-> contributions, before |-> before, applied |-> applied,
     pos |-> pos, valid |-> valid, walkable |-> walkable]

BoardInit ==
    /\ config \in BoardConfigs
    /\ cells = NewBoard(config)
    /\ snake = NoSnake
    /\ food = None
    /\ score = 0
    /\ tick = 0
    /\ status = "running"
    /\ phase = "board"
    /\ last = BoardCall("new", << >>, NewBoard(config), 0, Position(0, 0), TRUE, TRUE)
    /\ snapshot = NoSnapshot

ApplyContributions(contributions) ==
    /\ phase = "board"
    /\ \/ last.op = "new"
       \/ last.op = "apply" /\ last.applied = 1 /\ contributions \in EmptyGrids
    /\ cells' = apply_contributions(cells, contributions)
    /\ last' = BoardCall("apply", contributions, cells, last.applied + 1,
                         Position(0, 0), TRUE, TRUE)
    /\ UNCHANGED <<config, snake, food, score, tick, status, phase, snapshot>>

IsWalkable(pos) ==
    /\ phase = "board"
    /\ last.op # "is_walkable"
    /\ last' = BoardCall("is_walkable", last.contributions, cells, last.applied,
                         pos, is_valid_position(pos), is_walkable(cells, pos))
    /\ UNCHANGED <<config, cells, snake, food, score, tick, status, phase, snapshot>>

BoardNext ==
    \/ \E contributions \in BoardGrids : ApplyContributions(contributions)
    \/ \E pos \in BoardProbes : IsWalkable(pos)

BoardSpec == BoardInit /\ [][BoardNext]_vars

----------------------------------------------------------------------------
(* The snake alone (tests/test_game.py TestSnake): create, then any         *)
(* sequence of move and grow calls.  last counts the grow calls made since  *)
(* the previous move and holds the argument of the call.                    *)

SnakeCall(op, grows, direction) == [op |-> op, grows |-> grows, direction |-> direction]

GrowsPending == IF last.op = "grow" THEN last.grows ELSE 0

InBox(pos) == Abs(pos.x) <= MaxCoord /\ Abs(pos.y) <= MaxCoord

SnakeInit ==
    /\ config = Cfg("walls", 5, 1, 1, "lower_half_random")
    /\ cells = NewBoard(config)
    /\ \E len \in 1..MaxInitialLength, direction \in DirectionSet :
          snake = create(Position(0, 0), len, direction)
    /\ food = None
    /\ score = 0
    /\ tick = 0
    /\ status = "running"
    /\ phase = "snake"
    /\ last = SnakeCall("create", 0, "NA")
    /\ snapshot = NoSnapshot

SnakeMove(direction) ==
    /\ phase = "snake"
    /\ InBox(head(move(snake, direction)))
    /\ length(move(snake, direction)) <= MaxLen
    /\ snake' = move(snake, direction)
    /\ last' = SnakeCall("move", GrowsPending, direction)
    /\ UNCHANGED <<config, cells, food, score, tick, status, phase, snapshot>>

SnakeGrow ==
    /\ phase = "snake"
    /\ GrowsPending < MaxGrows
    /\ snake' = grow(snake)
    /\ last' = SnakeCall("grow", GrowsPending + 1, "NA")
    /\ UNCHANGED <<config, cells, food, score, tick, status, phase, snapshot>>

SnakeNext ==
    \/ \E direction \in StepInputs : SnakeMove(direction)
    \/ SnakeGrow

SnakeSpec == SnakeInit /\ [][SnakeNext]_vars

----------------------------------------------------------------------------
(* The collision detector and find_safe_moves on a snake that moves freely  *)
(* over and off a board with walls (tests/test_game.py                      *)
(* TestCollisionDetector, tests/test_ai.py TestPathfinding): before each    *)
(* move the caller asks would_collide for the cell ahead and find_safe_moves *)
(* for the snake; last holds the answers and the snake as it was.           *)

ProbeGrids ==
    { << >>,
      << <<0, 4, 0>>, <<0, 0, 0>> >>,
      << <<0, 0, 4>>, <<0, 4, 0>> >> }

ProbeCall(op, direction, before, predicted, safe) ==
    [op |-> op, direction |-> direction, before |-> before,
     predicted |-> predicted, safe |-> safe]

InProbeBox(pos) ==
    /\ -1 <= pos.x /\ pos.x <= config.width
    /\ -1 <= pos.y /\ pos.y <= config.height

ProbeInit ==
    /\ config = [Cfg("walls", 3, 1, 1, "lower_half_random")
                    EXCEPT !.width = ProbeWidth, !.height = ProbeHeight]
    /\ \E contributions \in ProbeGrids :
          cells = apply_contributions(NewBoard(config), contributions)
    /\ \E start_position \in BoardPositions, len \in {1, MaxInitialLength},
           direction \in DirectionSet :
          snake = create(start_position, len, direction)
    /\ food = None
    /\ score = 0
    /\ tick = 0
    /\ status = "running"
    /\ phase = "probe"
    /\ last = ProbeCall("create", "NA", NoSnake, "NA", << >>)
    /\ snapshot = NoSnapshot

ProbeMove(direction) ==
    /\ phase = "probe"
    /\ InProbeBox(head(move(snake, direction)))
    /\ snake' = move(snake, direction)
    /\ last' = ProbeCall("move", direction, snake,
                         would_collide(cells, snake, Add(head(snake), value(direction))),
                         find_safe_moves(snake, cells))
    /\ UNCHANGED <<config, cells, food, score, tick, status, phase, snapshot>>

ProbeGrow ==
    /\ phase = "probe"
    /\ ~snake.growing
    /\ length(snake) <= MaxLen
    /\ snake' = grow(snake)
    /\ last' = ProbeCall("grow", "NA", NoSnake, "NA", << >>)
    /\ UNCHANGED <<config, cells, food, score, tick, status, phase, snapshot>>

ProbeNext ==
    \/ \E direction \in DirectionSet : ProbeMove(direction)
    \/ ProbeGrow

ProbeSpec == ProbeInit /\ [][ProbeNext]_vars

----------------------------------------------------------------------------
(* bfs_path on its own (tests/test_ai.py TestPathfinding): a board with or  *)
(* without walls, then one search; last holds its arguments and its answer. *)

PathGrids ==
    { << >>,
      << <<0, 4, 0, 0>>, <<0, 4, 0, 0>> >>,
      << <<0, 4, 0, 0>>, <<0, 0, 0, 4>> >>,
      << <<0, 4, 0, 0>>, <<4, 0, 0, 0>> >> }

PathObstacles == SUBSET {Position(1, 0), Position(1, 1), Position(0, 1)}

PathTargets ==
    {Position(px, py) : px \in (-1)..config.width, py \in (-1)..config.height}

PathCall(op, start, target, obstacles, path) ==
    [op |-> op, start |-> start, target |-> target, obstacles |-> obstacles, path |-> path]

PathInit ==
    /\ config = Cfg("walls", 3, 1, 1, "lower_half_random")
    /\ \E contributions \in PathGrids :
          cells = apply_contributions(NewBoard(config), contributions)
    /\ snake = NoSnake
    /\ food = None
    /\ score = 0
    /\ tick = 0
    /\ status = "running"
    /\ phase = "path"
    /\ last = PathCall("init", Position(0, 0), Position(0, 0), {}, None)
    /\ snapshot = NoSnapshot

Search(start, target, obstacles) ==
    /\ phase = "path"
    /\ last.op = "init"
    /\ last' = PathCall("bfs_path", start, target, obstacles,
                        bfs_path(start, target, cells, obstacles))
    /\ UNCHANGED <<config, cells, snake, food, score, tick, status, phase, snapshot>>

PathNext ==
    \E start \in BoardPositions, target \in PathTargets, obstacles \in PathObstacles :
        Search(start, target, obstacles)

PathSpec == PathInit /\ [][PathNext]_vars

----------------------------------------------------------------------------
(* The driver loop of __main__.py: while the engine is running, ask the     *)
(* controller for a direction and step with it.  last holds the direction   *)
(* the controller returned and the safe moves it computed.                  *)

AIStrategies == {"greedy", "bfs_safe", "survival", "commit_hunter"}

DrivenCfg(mode, len, strategy) ==
    [width |-> MaxWidth, height |-> MaxHeight,
     contribution_mode |-> mode, wall_threshold |-> 3,
     initial_length |-> len, max_ticks |-> MaxTicks,
     spawn_position |-> "center", ai_strategy |-> strategy]

DrivenConfigs ==
    {DrivenCfg(mode, len, strategy) :
        mode \in {"walls", "food"}, len \in 1..MaxInitialLength, strategy \in AIStrategies}

(* the grids a driven configuration is run on: none, or walls around the *)
(* center cell, in walls mode; contributions to collect in food mode     *)
DrivenGrids(cfg) ==
    IF cfg.contribution_mode = "walls"
    THEN { << >>, << <<0, 0, 4, 0>>, <<0, 4, 0, 4>> >> }
    ELSE { << <<1, 1, 0, 2>>, <<0, 2, 0, 0>> >> }

Decision(direction, safe) == [op |-> "decide", direction |-> direction, safe |-> safe]

DrivenInit ==
    /\ config \in DrivenConfigs
    /\ cells = NewBoard(config)
    /\ snake = NoSnake
    /\ food = None
    /\ score = 0
    /\ tick = 0
    /\ status = "running"
    /\ phase = "constructed"
    /\ last = Call("init", "NA", FALSE, FALSE)
    /\ snapshot = NoSnapshot

Decide ==
    /\ phase = "ready"
    /\ is_running
    /\ last.op # "decide"
    /\ last' = Decision(get_next_direction(snake, cells, food), find_safe_moves(snake, cells))
    /\ UNCHANGED <<config, cells, snake, food, score, tick, status, phase, snapshot>>

Drive ==
    /\ last.op = "decide"
    /\ \/ StepCollision(last.direction)
       \/ StepAdvance(last.direction)

DrivenNext ==
    \/ \E contributions \in DrivenGrids(config) : Setup(contributions)
    \/ Decide
    \/ Drive

DrivenSpec == DrivenInit /\ [][DrivenNext]_vars

----------------------------------------------------------------------------
(* commit_hunter on a state built by hand (tests/test_ai.py                 *)
(* test_ai_commit_hunter_prefers_continuing_direction_on_tie): a food-mode  *)
(* board of ProbeWidth x ProbeHeight cells with a contribution cell of      *)
(* level 1 and one of level 2, a snake of one or two cells with any         *)
(* heading, then one call of get_next_direction.                            *)

HunterBoards ==
    {[pos \in BoardPositions |->
         [cell_type |-> "EMPTY",
          contribution_level |-> IF pos = q THEN 2 ELSE IF pos = p THEN 1 ELSE 0]] :
        p \in BoardPositions, q \in BoardPositions}

HunterSnakes ==
    {s \in {create(pos, len, d) :
               pos \in BoardPositions, len \in 1..2, d \in DirectionSet} :
        get_body_positions(s) \subseteq BoardPositions}

HunterInit ==
    /\ config = [DrivenCfg("food", 1, "commit_hunter")
                    EXCEPT !.width = ProbeWidth, !.height = ProbeHeight]
    /\ cells \in HunterBoards
    /\ snake \in HunterSnakes
    /\ cells[head(snake)].contribution_level = 0
    /\ food = None
    /\ score = 0
    /\ tick = 0
    /\ status = "running"
    /\ phase = "ready"
    /\ last = Call("init", "NA", FALSE, FALSE)
    /\ snapshot = NoSnapshot

HunterNext == Decide

HunterSpec == HunterInit /\ [][HunterNext]_vars

----------------------------------------------------------------------------
(* Properties of the engine *)

(* a transition made by a step that found the engine running *)
RunningStep == phase = "ready" /\ status = "running" /\ tick' # tick

(* the win conditions of step, read off the state the step leaves *)
WinConditionAfter ==
    /\ food' = None
    /\ \/ config.contribution_mode = "food" /\ count_contribution_cells(cells') = 0
       \/ get_empty_positions(cells', get_body_positions(snake')) = {}

CollidedAfter == check_snake_collision(cells, snake') # "NONE"

(* C1: once status is won, collision or timeout, a step changes none of     *)
(* status, tick, score, target, snake body, heading, growing flag and board *)
(* cells, so status never returns to running.                               *)
C1_TerminalStepIsNoOp ==
    [][(status # "running") => (UNCHANGED <<status, tick, score, food, snake, cells>>)]_vars

C1_Witness == last.op = "noop" /\ status \in Terminal

(* C2: a running step whose move collides (BOUNDARY, WALL or SELF) sets     *)
(* status to collision, increments tick and leaves score, target and every  *)
(* board cell unchanged.                                                    *)
C2_CollidingStepFrame ==
    [][(RunningStep /\ CollidedAfter) =>
          /\ status' = "collision"
          /\ tick' = tick + 1
          /\ UNCHANGED <<score, food, cells>>
          /\ ~snake'.growing]_vars

C2_Witness ==
    /\ status = "collision"
    /\ last.op = "step"
    /\ last.collision = "SELF"
    /\ cells[head(snake)].contribution_level > 0

(* C3: in food mode a non-colliding step onto a cell of positive level adds *)
(* exactly 1 to score, zeroes that cell and requests growth; onto a cell of *)
(* level 0 it changes neither score nor any cell.                           *)
C3_FoodModeConsumption ==
    [][(RunningStep /\ ~CollidedAfter /\ config.contribution_mode = "food") =>
          IF cells[head(snake')].contribution_level > 0
          THEN /\ score' = score + 1
               /\ cells'[head(snake')].contribution_level = 0
               /\ snake'.growing
          ELSE /\ score' = score
               /\ cells' = cells]_vars

C3_Witness ==
    /\ config.contribution_mode = "food"
    /\ last.op = "step"
    /\ last.consumed
    /\ score = 1
    /\ snake.growing

(* C4: in food mode a step that consumes a positive cell other than the     *)
(* tracked target leaves the target as it was; the target changes only on a *)
(* step whose head lands on the target cell and consumes it.                *)
C4_TargetKeptUnlessConsumed ==
    [][(RunningStep /\ config.contribution_mode = "food") =>
          /\ (/\ ~CollidedAfter
              /\ cells[head(snake')].contribution_level > 0
              /\ food # Some(head(snake')))
             => food' = food
          /\ (food # None /\ food' # food)
             => /\ ~CollidedAfter
                /\ food = Some(head(snake'))
                /\ cells[head(snake')].contribution_level > 0
                /\ cells'[head(snake')].contribution_level = 0]_vars

C4_Witness ==
    /\ config.contribution_mode = "food"
    /\ last.op = "step"
    /\ last.consumed
    /\ ~last.on_target
    /\ food # None

(* C5: a running step sets status to won exactly when the move does not     *)
(* collide and, after consumption and respawn, the target is empty and      *)
(* either (food mode) no cell of positive level remains or no walkable cell *)
(* outside the snake body remains.                                          *)
C5_WonExactlyWhen ==
    [][RunningStep =>
          (status' = "won" <=> (~CollidedAfter /\ WinConditionAfter))]_vars

C5_Witness ==
    /\ status = "won"
    /\ last.op = "step"
    /\ config.contribution_mode = "walls"
    /\ get_empty_positions(cells, get_body_positions(snake)) = {}

C7_TimeoutCheckedLast ==
    [][(RunningStep /\ tick' = config.max_ticks) =>
          status' = IF CollidedAfter THEN "collision"
                    ELSE IF WinConditionAfter THEN "won"
                    ELSE "timeout"]_vars

C7_Witness ==
    /\ status = "won"
    /\ last.op = "step"
    /\ tick = config.max_ticks

(* C8: with max_ticks >= 1, every step taken while running adds exactly 1   *)
(* to tick and status running implies tick < max_ticks, so the engine is    *)
(* terminal after at most max_ticks steps.                                  *)
C8_TickBudget ==
    /\ []((phase = "ready" /\ status = "running") => tick < config.max_ticks)
    /\ [][(phase = "ready" /\ status = "running") => tick' = tick + 1]_vars

C8_Witness ==
    /\ status = "timeout"
    /\ tick = config.max_ticks
    /\ config.max_ticks = MaxTicks

(* C9 as stated: on an open board of width W with max_ticks > W, stepping  *)
(* RIGHT on every tick keeps status running while the new head has         *)
(* x <= W-1 and sets collision on the first step whose head has x = W,      *)
(* within W steps of setup.                                                 *)
OpenBoard == \A pos \in BoardPositions : cells[pos].cell_type # "WALL"

RightRun == phase = "ready" /\ OpenBoard /\ config.max_ticks > config.width

C9_RightRunOnlyCollides ==
    RightRun =>
        /\ tick <= head(snake).x
        /\ head(snake).x <= config.width
        /\ status = IF head(snake).x <= config.width - 1 THEN "running" ELSE "collision"

(* C9 amended: on such a run no step whose new head has x <= W-1 sets       *)
(* status to collision or timeout (status is running, or won once no        *)
(* target can remain); the first step whose new head has x = W sets         *)
(* collision, within W steps of setup.                                      *)
C9_RightRunCollidesAtEdge ==
    RightRun =>
        /\ tick <= head(snake).x
        /\ head(snake).x <= config.width
        /\ status \in (IF head(snake).x <= config.width - 1
                       THEN {"running", "won"}
                       ELSE {"collision"})

C9_Witness ==
    /\ RightRun
    /\ status = "collision"
    /\ last.collision = "BOUNDARY"
    /\ head(snake).x = config.width
    /\ tick = config.width

(* C13: in every engine state reachable from setup by step calls, status    *)
(* running implies the snake head is inside the board bounds.               *)
C13_RunningHeadInBounds ==
    (phase = "ready" /\ status = "running") => is_valid_position(head(snake))

C13_Witness ==
    /\ phase = "ready"
    /\ status = "running"
    /\ last.op = "step"
    /\ tick >= 2
    /\ head(snake).x = config.width - 1
    /\ head(snake).y = 0

----------------------------------------------------------------------------
(* Properties of the snake *)

(* C10: move leaves the body length unchanged when the growing flag is      *)
(* clear and adds exactly 1, clearing the flag, when grow was called since  *)
(* the previous move, however many times it was called.                     *)
C10_MoveLength ==
    [][(last'.op = "move") =>
          /\ length(snake') = length(snake) + (IF last'.grows > 0 THEN 1 ELSE 0)
          /\ (~snake.growing => length(snake') = length(snake))
          /\ ~snake'.growing]_vars

C10_Witness ==
    /\ last.op = "move"
    /\ last.grows = MaxGrows
    /\ length(snake) = MaxInitialLength + 1

(* C11: for a snake of length > 1, move(d) with d the opposite of the       *)
(* heading keeps the heading and advances the head along it; for a snake of *)
(* length 1 the reversed direction becomes the heading and the head         *)
(* advances along it.                                                       *)
C11_ReversalRejectedUnlessSingle ==
    [][(last'.op = "move" /\ last'.direction = opposite(snake.direction)) =>
          IF length(snake) > 1
          THEN /\ snake'.direction = snake.direction
               /\ head(snake') = Add(head(snake), value(snake.direction))
          ELSE /\ snake'.direction = opposite(snake.direction)
               /\ head(snake') = Add(head(snake), value(opposite(snake.direction)))]_vars

C11_Witness ==
    /\ last.op = "move"
    /\ last.direction = opposite(snake.direction)
    /\ length(snake) > 1
    /\ snake.body[2] = Add(head(snake), value(last.direction))

Manhattan(p, q) == Abs(p.x - q.x) + Abs(p.y - q.y)

(* C12: in every state reachable from create by move and grow calls the     *)
(* body has length >= 1 and every two consecutive body segments are at      *)
(* Manhattan distance exactly 1.                                            *)
C12_BodyConnected ==
    phase = "snake" =>
        /\ length(snake) >= 1
        /\ \A i \in 1..(length(snake) - 1) :
              Manhattan(snake.body[i], snake.body[i + 1]) = 1

C12_Witness ==
    /\ phase = "snake"
    /\ last.op = "move"
    /\ length(snake) = MaxInitialLength + 1
    /\ snake.body[1].x # snake.body[3].x
    /\ snake.body[1].y # snake.body[3].y

----------------------------------------------------------------------------
(* Properties of the collision detector and of find_safe_moves *)

(* C14: check_snake_collision returns BOUNDARY when the head is outside the *)
(* grid, otherwise WALL when the head is on a wall cell, otherwise SELF     *)
(* when the head position reoccurs elsewhere in the body, otherwise NONE;   *)
(* so a head outside the grid that equals a body segment gives BOUNDARY and *)
(* a head on a wall that overlaps the body gives WALL.                      *)
HeadOffGrid ==
    \/ head(snake).x < 0 \/ head(snake).x >= config.width
    \/ head(snake).y < 0 \/ head(snake).y >= config.height

HeadOnWall == ~HeadOffGrid /\ cells[head(snake)].cell_type = "WALL"

HeadInBody == \E i \in 2..length(snake) : snake.body[i] = snake.body[1]

C14_CollisionPriority ==
    (phase = "probe" /\ last.op = "move") =>
        /\ HeadOffGrid => check_snake_collision(cells, snake) = "BOUNDARY"
        /\ HeadOnWall => check_snake_collision(cells, snake) = "WALL"
        /\ (~HeadOffGrid /\ ~HeadOnWall /\ HeadInBody)
              => check_snake_collision(cells, snake) = "SELF"
        /\ (~HeadOffGrid /\ ~HeadOnWall /\ ~HeadInBody)
              => check_snake_collision(cells, snake) = "NONE"

C14_Witness ==
    /\ phase = "probe"
    /\ last.op = "move"
    /\ HeadOnWall
    /\ HeadInBody
    /\ check_snake_collision(cells, snake) = "WALL"

(* C15: for every direction d the snake accepts (d is not the reverse of    *)
(* the heading, or the length is 1), would_collide(snake, head + d) asked   *)
(* before move(d) equals check_snake_collision asked after it, and d is in  *)
(* find_safe_moves exactly when the committed move yields NONE.             *)
C15_PredictionMatchesMove ==
    (/\ phase = "probe"
     /\ last.op = "move"
     /\ AcceptsDirection(last.before, last.direction))
    => /\ last.predicted = check_snake_collision(cells, snake)
       /\ (last.direction \in Range(last.safe))
             <=> (check_snake_collision(cells, snake) = "NONE")

C15_Witness ==
    /\ phase = "probe"
    /\ last.op = "move"
    /\ AcceptsDirection(last.before, last.direction)
    /\ head(snake) = tail(last.before)
    /\ length(snake) > 2
    /\ last.predicted = "NONE"
    /\ last.direction \in Range(last.safe)

IndexOf(d) == CHOOSE i \in 1..Len(Directions) : Directions[i] = d

(* C16: find_safe_moves never returns the opposite of the heading when the  *)
(* length is > 1; every returned direction leads to a walkable cell that is *)
(* not in the body, the tail excluded unless growing; the result lists      *)
(* directions in the order UP, DOWN, LEFT, RIGHT.                           *)
C16_SafeMovesSound ==
    (phase = "probe" /\ last.op = "move") =>
        LET s == last.before
            all_but_tail == {s.body[i] : i \in 1..(length(s) - 1)}
            body == IF s.growing THEN all_but_tail \cup {s.body[length(s)]}
                    ELSE all_but_tail
        IN /\ length(s) > 1 => opposite(s.direction) \notin Range(last.safe)
           /\ \A d \in Range(last.safe) :
                 /\ is_valid_position(Add(head(s), value(d)))
                 /\ cells[Add(head(s), value(d))].cell_type # "WALL"
                 /\ Add(head(s), value(d)) \notin body
           /\ \A i, j \in 1..Len(last.safe) :
                 i < j => IndexOf(last.safe[i]) < IndexOf(last.safe[j])

C16_Witness ==
    /\ phase = "probe"
    /\ last.op = "move"
    /\ length(last.before) = 2
    /\ ~last.before.growing
    /\ is_walkable(cells, tail(last.before))
    /\ tail(last.before) = Add(head(last.before), value(opposite(last.before.direction)))
    /\ Len(last.safe) = 2
    /\ last.safe[1] = "DOWN"

----------------------------------------------------------------------------
(* Properties of bfs_path *)

(* C19: on a board with no walls and with an empty obstacle set, for all    *)
(* in-bounds start and target, bfs_path returns a path whose length is      *)
(* |dx| + |dy|; bfs_path(p, p, ...) returns the empty list.                 *)
C19_OpenBoardManhattan ==
    (/\ phase = "path"
     /\ last.op = "bfs_path"
     /\ OpenBoard
     /\ last.obstacles = {}
     /\ is_valid_position(last.start)
     /\ is_valid_position(last.target))
    => /\ last.path # None
       /\ Len(last.path[1]) = Manhattan(last.start, last.target)
       /\ (last.start = last.target) => (last.path = Some(<< >>))

C19_Witness ==
    /\ phase = "path"
    /\ last.op = "bfs_path"
    /\ OpenBoard
    /\ last.obstacles = {}
    /\ last.start = Position(config.width - 1, config.height - 1)
    /\ last.target = Position(0, 0)
    /\ last.path # None
    /\ Len(last.path[1]) = config.width + config.height - 2

(* the cells joined to start by walkable cells outside the obstacle set *)
Traversable(pos, obstacles) ==
    /\ pos \in BoardPositions
    /\ cells[pos].cell_type # "WALL"
    /\ pos \notin obstacles

RECURSIVE ReachableFrom(_, _)
ReachableFrom(found, obstacles) ==
    LET more == {pos \in BoardPositions :
                    /\ Traversable(pos, obstacles)
                    /\ \E p \in found : Manhattan(p, pos) = 1}
    IN IF more \subseteq found THEN found
       ELSE ReachableFrom(found \cup more, obstacles)

Separated ==
    \A d \in DirectionSet :
        Add(last.target, value(d)) \notin ReachableFrom({last.start}, last.obstacles)

(* C20 as stated: bfs_path returns no path (None) whenever walls or        *)
(* obstacles separate the start from every 4-neighbour of the target.      *)
C20_SeparatedGivesNone ==
    (phase = "path" /\ last.op = "bfs_path" /\ Separated) => last.path = None

(* C20 amended: bfs_path returns no path (None) whenever start differs from *)
(* target and walls or obstacles separate the start from every 4-neighbour  *)
(* of the target; for start = target it returns the empty path.             *)
C20_SeparatedApartGivesNone ==
    (phase = "path" /\ last.op = "bfs_path" /\ Separated) =>
        IF last.start = last.target
        THEN last.path = Some(<< >>)
        ELSE last.path = None

C20_Witness ==
    /\ phase = "path"
    /\ last.op = "bfs_path"
    /\ \A py \in 0..(config.height - 1) : cells[Position(1, py)].cell_type = "WALL"
    /\ last.obstacles = {}
    /\ last.start = Position(0, 0)
    /\ last.target = Position(config.width - 1, 0)
    /\ last.path = None

----------------------------------------------------------------------------
(* Properties of the controller *)

(* C17: for each strategy (greedy, bfs_safe, survival, commit_hunter), when *)
(* find_safe_moves is empty for the given state, get_next_direction returns *)
(* the current heading of the snake.                                        *)
C17_NoSafeMoveKeepsHeading ==
    (last.op = "decide" /\ find_safe_moves(snake, cells) = << >>)
        => last.direction = snake.direction

C17_Witness ==
    /\ last.op = "decide"
    /\ last.safe = << >>
    /\ config.ai_strategy = "survival"
    /\ last.direction = snake.direction

(* C18: bfs_safe takes the first step of the BFS path to the target only if *)
(* that step is in the safe-move set and the reachable space after the move *)
(* is >= snake length + 5; in every other case it returns the survival      *)
(* choice; so whenever the safe-move set is non-empty the returned          *)
(* direction is a member of it, for every snake length >= 1.                *)
TakesPathStep ==
    /\ food # None
    /\ Truthy(bfs_path(head(snake), food[1], cells, body_positions(snake)))
    /\ bfs_path(head(snake), food[1], cells, body_positions(snake))[1][1] \in Range(last.safe)
    /\ evaluate_move_safety(snake,
                            bfs_path(head(snake), food[1], cells, body_positions(snake))[1][1],
                            cells) >= length(snake) + 5

C18_BfsSafeWithinSafeMoves ==
    (last.op = "decide" /\ config.ai_strategy = "bfs_safe" /\ last.safe # << >>) =>
        /\ last.direction =
              IF TakesPathStep
              THEN bfs_path(head(snake), food[1], cells, body_positions(snake))[1][1]
              ELSE _best_survival_move(snake, cells, last.safe)
        /\ last.direction \in Range(last.safe)

----------------------------------------------------------------------------
(* Properties of the food spawner *)

(* the positions spawn may return after a transition *)
SpawnableAfter ==
    {pos \in BoardPositions :
        /\ pos \notin get_body_positions(snake')
        /\ IF config.contribution_mode = "food"
           THEN cells'[pos].contribution_level > 0
           ELSE cells'[pos].cell_type # "WALL"}

SpawnedAfter ==
    IF food' = None THEN SpawnableAfter = {} ELSE food'[1] \in SpawnableAfter

----------------------------------------------------------------------------
(* Properties of the GameState returned by get_state *)

(* C23: a GameState returned by get_state keeps the snake body, heading,   *)
(* board cell levels, target, score, tick and status it had when it was    *)
(* produced, whatever step calls follow.                                   *)
C23_SnapshotKeepsState ==
    snapshot.taken =>
        /\ Deref(snapshot.state.snake).body = snapshot.produced.snake.body
        /\ Deref(snapshot.state.snake).direction = snapshot.produced.snake.direction
        /\ \A pos \in BoardPositions :
              Deref(snapshot.state.board)[pos].contribution_level
                  = snapshot.produced.board[pos].contribution_level
        /\ snapshot.state.food = snapshot.produced.food
        /\ snapshot.state.score = snapshot.produced.score
        /\ snapshot.state.tick = snapshot.produced.tick
        /\ snapshot.state.status = snapshot.produced.status
----------------------------------------------------------------------------
(* Properties of the spawn search of setup *)

(* the cells of an initial body whose head is at pos *)
InitialBody(pos) ==
    {Position(pos.x - i, pos.y) : i \in 0..(config.initial_length - 1)}

OnWalkableCell(pos) ==
    pos \in BoardPositions /\ cells[pos].cell_type # "WALL"

BodyFitsSomewhere ==
    \E pos \in BoardPositions : \A q \in InitialBody(pos) : OnWalkableCell(q)

(* C24: after setup, if some head position has its whole initial body on   *)
(* walkable cells, every segment of the snake is on a walkable in-bounds   *)
(* cell, whichever spawn strategy is preferred.                            *)
C24_InitialSnakeOnWalkable ==
    (last.op = "setup" /\ BodyFitsSomewhere) =>
        \A i \in 1..Len(snake.body) : OnWalkableCell(snake.body[i])

(* the preferred strategy lists nothing and the first cell of the fallback *)
(* strategy is not a valid head position                                   *)
C24_Witness ==
    /\ last.op = "setup"
    /\ BodyFitsSomewhere
    /\ config.spawn_position = "legacy_left"
    /\ config.initial_length = MaxInitialLength
    /\ \E q \in InitialBody(Anchor("bottom_center")) : ~OnWalkableCell(q)
    /\ \E pos \in BoardPositions : cells[pos].cell_type = "WALL"

LowerHalf == {pos \in BoardPositions : pos.y >= config.height \div 2}

(* C25 as stated: with spawn strategy lower_half_random, setup places the  *)
(* head in the bottom half of the board, head.y >= height // 2.            *)
C25_HeadInLowerHalf ==
    (last.op = "setup" /\ config.spawn_position = "lower_half_random") =>
        head(snake).y >= config.height \div 2

(* C25: with spawn strategy lower_half_random, setup places the head in    *)
(* the bottom half of the board whenever some head position of the bottom  *)
(* half has its whole initial body on walkable cells.                      *)
C25_HeadInLowerHalfWhenFits ==
    (/\ last.op = "setup"
     /\ config.spawn_position = "lower_half_random"
     /\ \E pos \in LowerHalf : \A q \in InitialBody(pos) : OnWalkableCell(q)) =>
        head(snake).y >= config.height \div 2

(* a bottom half with walls in it that still holds the snake               *)
C25_Witness ==
    /\ last.op = "setup"
    /\ config.spawn_position = "lower_half_random"
    /\ config.height = MaxHeight
    /\ config.initial_length > 1
    /\ \E pos \in LowerHalf : cells[pos].cell_type = "WALL"
    /\ \E pos \in LowerHalf : \A q \in InitialBody(pos) : OnWalkableCell(q)
    /\ head(snake) \in LowerHalf

NoCandidateValid ==
    \A i \in 1..Len(Strategies) : \A pos \in _spawn_candidates(Strategies[i]) :
        \E q \in InitialBody(pos) : ~OnWalkableCell(q)

(* C26: setup always places a snake.  When no strategy candidate is valid  *)
(* the head is on a walkable cell if the board has one and at              *)
(* (width // 2, height // 2) if it has none; in every case the head is in  *)
(* bounds and score and tick are 0.                                        *)
C26_SetupAlwaysPlaces ==
    (last.op = "setup") =>
        /\ Len(snake.body) = config.initial_length
        /\ head(snake) \in BoardPositions
        /\ score = 0
        /\ tick = 0
        /\ NoCandidateValid =>
              IF \E pos \in BoardPositions : OnWalkableCell(pos)
              THEN OnWalkableCell(head(snake))
              ELSE head(snake) = Position(config.width \div 2, config.height \div 2)

(* a board of walls only *)
C26_Witness ==
    /\ last.op = "setup"
    /\ NoCandidateValid
    /\ \A pos \in BoardPositions : cells[pos].cell_type = "WALL"
    /\ config.width = MaxWidth
    /\ head(snake) = Position(config.width \div 2, config.height \div 2)

(* a board too narrow for the snake, with a wall on its centre cell *)
C26_NarrowBoardReached ==
    /\ last.op = "setup"
    /\ NoCandidateValid
    /\ cells[Position(config.width \div 2, config.height \div 2)].cell_type = "WALL"
    /\ OnWalkableCell(head(snake))
----------------------------------------------------------------------------
(* Properties of the board *)

IsEmptyGrid(contributions) ==
    Len(contributions) = 0 \/ Len(contributions[1]) = 0

(* C27: applying an S x S source grid to a board of width S and height S   *)
(* stores in every cell (x, y) the source value at row y, column x.        *)
C27_SquareGridCopied ==
    (/\ last.op = "apply"
     /\ ~IsEmptyGrid(last.contributions)
     /\ Len(last.contributions) = config.height
     /\ Len(last.contributions[1]) = config.width
     /\ config.width = config.height) =>
        \A pos \in BoardPositions :
            cells[pos].contribution_level = last.contributions[pos.y + 1][pos.x + 1]

C27_Witness ==
    /\ last.op = "apply"
    /\ config.width = MaxSourceSide
    /\ config.height = MaxSourceSide
    /\ last.contributions = RampGrid(MaxSourceSide, MaxSourceSide)
    /\ cells[Position(1, 0)].contribution_level # cells[Position(0, 1)].contribution_level

(* C28: after apply_contributions on a fresh board in walls mode a cell is *)
(* a wall exactly when its sampled level is >= wall_threshold; in food     *)
(* mode no cell becomes a wall and every cell stays walkable.              *)
C28_WallsFromThreshold ==
    (last.op = "apply" /\ last.applied = 1 /\ ~IsEmptyGrid(last.contributions)) =>
        \A pos \in BoardPositions :
            IF config.contribution_mode = "walls"
            THEN (cells[pos].cell_type = "WALL")
                    <=> (SampledLevel(last.contributions, pos) >= config.wall_threshold)
            ELSE cells[pos].cell_type # "WALL" /\ is_walkable(cells, pos)

(* a level equal to the threshold makes a wall next to a cell that is none *)
C28_Witness ==
    /\ last.op = "apply" /\ last.applied = 1
    /\ config.contribution_mode = "walls"
    /\ \E pos \in BoardPositions :
          /\ cells[pos].contribution_level = config.wall_threshold
          /\ cells[pos].cell_type = "WALL"
    /\ \E pos \in BoardPositions : cells[pos].cell_type = "EMPTY"

C28_FoodModeReached ==
    /\ last.op = "apply" /\ last.applied = 1
    /\ config.contribution_mode = "food"
    /\ \E pos \in BoardPositions : cells[pos].contribution_level >= config.wall_threshold

(* C29: apply_contributions with an empty grid (no rows, or an empty first *)
(* row) leaves every cell unchanged, and for a non-empty rectangular grid  *)
(* and any board size each sampled index is within the source grid.        *)
C29_EmptyGridAndIndexRange ==
    (last.op = "apply") =>
        IF IsEmptyGrid(last.contributions)
        THEN cells = last.before
        ELSE \A pos \in BoardPositions :
                /\ SampleIndex(pos.y, Len(last.contributions), config.height)
                        \in 0..(Len(last.contributions) - 1)
                /\ SampleIndex(pos.x, Len(last.contributions[1]), config.width)
                        \in 0..(Len(last.contributions[1]) - 1)

(* an empty first row applied to a board that holds walls *)
C29_Witness ==
    /\ last.op = "apply" /\ last.applied = 2
    /\ last.contributions = << << >> >>
    /\ \E pos \in BoardPositions : cells[pos].cell_type = "WALL"

C29_DownsampledReached ==
    /\ last.op = "apply"
    /\ ~IsEmptyGrid(last.contributions)
    /\ Len(last.contributions) = MaxSourceSide
    /\ Len(last.contributions[1]) = MaxSourceSide
    /\ config.width = 2 /\ config.height = 1

(* C30: for every board and every position p, is_walkable(p) is false     *)
(* whenever is_valid_position(p) is false.                                 *)
C30_InvalidNotWalkable ==
    (last.op = "is_walkable" /\ ~last.valid) => ~last.walkable

C30_Witness ==
    /\ last.op = "is_walkable"
    /\ last.pos = Position(-1, config.height)
    /\ ~last.valid
    /\ \E pos \in BoardPositions : cells[pos].cell_type = "WALL"
    /\ \E pos \in BoardPositions : cells[pos].cell_type = "EMPTY"
----------------------------------------------------------------------------
(* Properties of the paths bfs_path returns *)

(* the position k directions of path lead to from start *)
RECURSIVE PathPosition(_, _, _)
PathPosition(start, path, k) ==
    IF k = 0 THEN start
    ELSE Add(PathPosition(start, path, k - 1), value(path[k]))

(* the cells k steps over traversable cells lead to from the cells of found *)
RECURSIVE WithinSteps(_, _, _)
WithinSteps(found, obstacles, k) ==
    IF k = 0 THEN found
    ELSE WithinSteps(found \cup {pos \in BoardPositions :
                                    /\ Traversable(pos, obstacles)
                                    /\ \E p \in found : Manhattan(p, pos) = 1},
                     obstacles, k - 1)

(* whether some m directions lead from start to target over traversable cells *)
LeadsToTargetIn(m) ==
    IF m = 0 THEN last.start = last.target
    ELSE \E p \in WithinSteps({last.start}, last.obstacles, m - 1) :
            Manhattan(p, last.target) = 1

(* C31: when bfs_path returns a path, its directions applied in order from *)
(* start end at target, every position they visit before the target is     *)
(* walkable and not in obstacles, and no shorter sequence of directions     *)
(* does the same.                                                           *)
C31_PathValidAndShortest ==
    (phase = "path" /\ last.op = "bfs_path" /\ last.path # None) =>
        LET path == last.path[1]
        IN /\ PathPosition(last.start, path, Len(path)) = last.target
           /\ \A k \in 1..(Len(path) - 1) :
                 Traversable(PathPosition(last.start, path, k), last.obstacles)
           /\ \A m \in 0..(Len(path) - 1) : ~LeadsToTargetIn(m)

(* a path that goes round a wall and an obstacle *)
C31_Witness ==
    /\ phase = "path" /\ last.op = "bfs_path"
    /\ last.path # None
    /\ Len(last.path[1]) > Manhattan(last.start, last.target)
    /\ last.obstacles # {}
    /\ \E pos \in BoardPositions : cells[pos].cell_type = "WALL"

(* the start itself is not tested: a path may begin on an obstacle cell *)
C31_StartOnObstacleReached ==
    /\ phase = "path" /\ last.op = "bfs_path"
    /\ last.path # None /\ last.path # Some(<< >>)
    /\ last.start \in last.obstacles

(* C32: bfs_path returns a path ending at the target whenever some         *)
(* 4-neighbour of the target is reachable from start through walkable      *)
(* non-obstacle cells, even when the target is not walkable or is an       *)
(* obstacle.                                                               *)
C32_TargetAcceptedAsDestination ==
    (/\ phase = "path" /\ last.op = "bfs_path"
     /\ \E d \in DirectionSet :
           Add(last.target, value(d)) \in ReachableFrom({last.start}, last.obstacles)) =>
        /\ last.path # None
        /\ PathPosition(last.start, last.path[1], Len(last.path[1])) = last.target

(* a target on a wall cell, two or more steps away *)
C32_Witness ==
    /\ phase = "path" /\ last.op = "bfs_path"
    /\ last.target \in BoardPositions
    /\ cells[last.target].cell_type = "WALL"
    /\ last.path # None
    /\ Len(last.path[1]) >= 2

C32_ObstacleTargetReached ==
    /\ phase = "path" /\ last.op = "bfs_path"
    /\ last.target \in last.obstacles
    /\ last.path # None
    /\ Len(last.path[1]) >= 2

C32_OffBoardTargetReached ==
    /\ phase = "path" /\ last.op = "bfs_path"
    /\ ~is_valid_position(last.target)
    /\ last.path # None
    /\ Len(last.path[1]) >= 2
----------------------------------------------------------------------------
(* Properties of the survival choice *)

(* the place of a direction in the order UP, DOWN, LEFT, RIGHT *)
DirectionOrder(d) == CHOOSE i \in 1..Len(Directions) : Directions[i] = d

(* C33: survival returns the safe move with the largest                    *)
(* evaluate_move_safety value; among safe moves of equal value it returns  *)
(* the one that comes first in the order UP, DOWN, LEFT, RIGHT.            *)
C33_SurvivalPicksLargestFirst ==
    (/\ phase = "ready" /\ last.op = "decide"
     /\ config.ai_strategy = "survival"
     /\ last.safe # << >>) =>
        /\ last.direction \in Range(last.safe)
        /\ \A d \in Range(last.safe) :
              /\ evaluate_move_safety(snake, d, cells)
                    <= evaluate_move_safety(snake, last.direction, cells)
              /\ (evaluate_move_safety(snake, d, cells)
                     = evaluate_move_safety(snake, last.direction, cells))
                    => DirectionOrder(last.direction) <= DirectionOrder(d)

(* the choice is not the first safe move: the first one scores lower *)
C33_Witness ==
    /\ phase = "ready" /\ last.op = "decide"
    /\ config.ai_strategy = "survival"
    /\ Len(last.safe) >= 2
    /\ last.direction # last.safe[1]
    /\ evaluate_move_safety(snake, last.safe[1], cells)
          < evaluate_move_safety(snake, last.direction, cells)

(* two safe moves of equal score: the earlier one is returned *)
C33_TieReached ==
    /\ phase = "ready" /\ last.op = "decide"
    /\ config.ai_strategy = "survival"
    /\ Len(last.safe) >= 2
    /\ last.direction = last.safe[1]
    /\ evaluate_move_safety(snake, last.safe[2], cells)
          = evaluate_move_safety(snake, last.direction, cells)
----------------------------------------------------------------------------
(* Properties of commit_hunter *)

LexLeq(a, b) == a = b \/ LexLess(a, b)

(* the path commit_hunter finds to a candidate target, and its first step *)
HunterPath(target) == bfs_path(head(snake), target, cells, body_positions(snake))

HunterStep(target) == HunterPath(target)[1][1]

(* the nearest candidate targets that pass the safety filters *)
HunterSurvivors ==
    {target \in NearestTargets(snake, cells) :
        \E path \in {HunterPath(target)} :
            /\ path # None
            /\ path # Some(<< >>)
            /\ path[1][1] \in Range(last.safe)
            /\ evaluate_move_safety(snake, path[1][1], cells) >= length(snake) + 2}

SurvivorRank(target, path) ==
    <<Len(path[1]),
      IF path[1][1] = snake.direction THEN 0 ELSE 1,
      0 - cells[target].contribution_level>>

(* the first step and the rank of every surviving target *)
SurvivorRanks ==
    UNION {{<<path[1][1], SurvivorRank(target, path)>> : path \in {HunterPath(target)}} :
              target \in HunterSurvivors}

HunterDecided ==
    /\ phase = "ready" /\ last.op = "decide"
    /\ config.ai_strategy = "commit_hunter"
    /\ config.contribution_mode = "food"
    /\ last.safe # << >>

(* C34: in food mode commit_hunter returns the first step of a candidate   *)
(* that passes the safety filters and minimizes (path length, 0 if the     *)
(* step is the current heading else 1, negated target level); with two     *)
(* targets at equal path length it keeps the heading when one of them lies *)
(* straight ahead.                                                         *)
C34_HunterMinimizesRank ==
    HunterDecided =>
        \A ranks \in {SurvivorRanks} :
            ranks # {} =>
                /\ \E chosen \in ranks :
                      /\ last.direction = chosen[1]
                      /\ \A other \in ranks : LexLeq(chosen[2], other[2])
                /\ (\E ahead \in ranks :
                        /\ ahead[1] = snake.direction
                        /\ \A other \in ranks : ahead[2][1] <= other[2][1])
                      => last.direction = snake.direction

(* a target straight ahead and a target of higher level to the side, both  *)
(* one step away                                                           *)
C34_Witness ==
    /\ HunterDecided
    /\ \E ahead \in HunterSurvivors : \E side \in HunterSurvivors :
          /\ HunterStep(ahead) = snake.direction
          /\ HunterStep(side) # snake.direction
          /\ Len(HunterPath(ahead)[1]) = Len(HunterPath(side)[1])
          /\ cells[side].contribution_level > cells[ahead].contribution_level
    /\ last.direction = snake.direction

(* C35: in food mode, when safe moves exist but none of the nearest 12     *)
(* candidate targets has a BFS path whose first step is a safe move with   *)
(* reachable space >= snake length + 2, commit_hunter returns the survival *)
(* choice over the safe-move set, which is a member of that set.           *)
C35_HunterFallsBackToSurvival ==
    (HunterDecided /\ HunterSurvivors = {}) =>
        /\ last.direction \in Range(last.safe)
        /\ \A d \in Range(last.safe) :
              /\ evaluate_move_safety(snake, d, cells)
                    <= evaluate_move_safety(snake, last.direction, cells)
              /\ (evaluate_move_safety(snake, d, cells)
                     = evaluate_move_safety(snake, last.direction, cells))
                    => DirectionOrder(last.direction) <= DirectionOrder(d)

(* targets remain and two moves are safe, but no target passes the filters *)
C35_Witness ==
    /\ HunterDecided
    /\ HunterSurvivors = {}
    /\ NearestTargets(snake, cells) # {}
    /\ Len(last.safe) >= 2
    /\ last.direction \in Range(last.safe)
----------------------------------------------------------------------------
(* Properties of the driven run *)

(* a step of the driver loop that ends in a collision *)
DrivenCollision == last.op = "decide" /\ tick' # tick /\ status' = "collision"

(* C36: in a run where every step takes the direction get_next_direction   *)
(* returns, under each of the four strategies and every initial length, a  *)
(* step ends with status collision only if find_safe_moves was empty in    *)
(* the state just before it.                                               *)
C36_CollisionOnlyWithoutSafeMoves ==
    [][DrivenCollision => (find_safe_moves(snake, cells) = << >>)]_vars

(* the same, for the strategies that never leave the safe-move set *)
C36_ExceptBfsSafe ==
    [][(/\ DrivenCollision
        /\ config.ai_strategy # "bfs_safe"
        /\ ~(config.ai_strategy = "commit_hunter" /\ config.contribution_mode # "food"))
          => (find_safe_moves(snake, cells) = << >>)]_vars
----------------------------------------------------------------------------
(* Invariants of the engine *)

GrowthPending == IF snake.growing THEN 1 ELSE 0

(* C37: in every engine state reached from setup by step calls, the snake  *)
(* length plus 1 if the growing flag is set equals initial_length plus     *)
(* score.                                                                  *)
C37_LengthTracksScore ==
    (phase = "ready") =>
        length(snake) + GrowthPending = config.initial_length + score

C37_Witness ==
    /\ phase = "ready"
    /\ score = 2
    /\ snake.growing
    /\ length(snake) = config.initial_length + 1

(* the cells of positive contribution level *)
PositiveCells(b) == {pos \in BoardPositions : b[pos].contribution_level > 0}

(* C38: in food mode, in every state reached from setup by step calls,     *)
(* score plus the number of cells of positive level equals the number of   *)
(* cells of positive level right after setup: setup leaves score 0 and no  *)
(* step changes the sum.                                                   *)
C38_ScorePlusCellsConstant ==
    [][(config.contribution_mode = "food") =>
          /\ (last'.op = "setup") => score' = 0
          /\ (phase = "ready") =>
                score' + Cardinality(PositiveCells(cells'))
                    = score + Cardinality(PositiveCells(cells))]_vars

C38_Witness ==
    /\ phase = "ready"
    /\ config.contribution_mode = "food"
    /\ last.op = "step" /\ last.consumed
    /\ score = 2
    /\ PositiveCells(cells) # {}

LevelChanged ==
    {pos \in BoardPositions :
        cells'[pos].contribution_level # cells[pos].contribution_level}

(* C40: step never changes a cell's type nor the board dimensions; in      *)
(* walls and speed mode it changes no cell level, and in food mode it      *)
(* changes at most the level of the cell under the new head, setting it to *)
(* 0.                                                                      *)
C40_StepFrame ==
    [][(phase = "ready") =>
          /\ config'.width = config.width /\ config'.height = config.height
          /\ \/ cells' = cells
             \/ /\ DOMAIN cells' = DOMAIN cells
                /\ \A pos \in BoardPositions : cells'[pos].cell_type = cells[pos].cell_type
                /\ config.contribution_mode = "food"
                /\ \A pos \in LevelChanged :
                      pos = head(snake') /\ cells'[pos].contribution_level = 0]_vars

(* walls mode: the head has stepped on a cell of positive level below the  *)
(* threshold, next to a wall, and the level is still there                 *)
C40_Witness ==
    /\ phase = "ready" /\ last.op = "step" /\ last.collision = "NONE"
    /\ config.contribution_mode = "walls"
    /\ cells[head(snake)].contribution_level > 0
    /\ \E pos \in BoardPositions : cells[pos].cell_type = "WALL"

C40_FoodModeReached ==
    /\ phase = "ready" /\ last.op = "step" /\ last.consumed
    /\ config.contribution_mode = "food"
    /\ cells[head(snake)].contribution_level = 0
    /\ PositiveCells(cells) # {}
====
